---- MODULE Spec2Model ----
(***************************************************************************)
(* Pothole Patrol backend: the review engine (core/admin.py), the points   *)
(* ledger (core/utils.py award_report_points) and the redemption workflow  *)
(* (core/api.py redeem_points, core/admin.py approve_redemption).          *)
(*                                                                         *)
(* The database rows are the state.  Spec runs every handler as one        *)
(* request at a time; SpecConc runs two admin requests step by step, each  *)
(* holding the in-memory model instances Django loaded for it, with the    *)
(* database in autocommit mode (no ATOMIC_REQUESTS, no select_for_update). *)
(* SpecAward, SpecSettle and SpecReview run award_report_points,           *)
(* approve_redemption and the report review on rows of every kind the      *)
(* tables can hold.                                                        *)
(*                                                                         *)
(* The intake side (core/api.py submit_report, core/utils.py rate_limit    *)
(* and detect_gps_spam) adds the cache and the clock: SpecRate calls       *)
(* rate_limit one call after another while time passes, SpecRateConc runs  *)
(* two calls at once, cache operation by cache operation, and SpecIntake   *)
(* runs submit_report with all of its checks; SpecDedupe and SpecSpam run  *)
(* it on stored reports of every owner, status, place and age.             *)
(*                                                                         *)
(* SpecRegister runs core/api.py register on the User and UserProfile      *)
(* tables.                                                                 *)
(*                                                                         *)
(* SpecLifecycle follows a report from submit_report through review,       *)
(* SpecSubmitConc runs two submit_report requests at once, SpecCrash ends  *)
(* approve requests between report.save() and the award (with fairness),   *)
(* and SpecOrphan approves reports whose owner has been deleted.           *)
(***************************************************************************)
EXTENDS Integers, Sequences, FiniteSets, TLC

\* ------------------------------------------------------------- bounds
\* Rows the database may hold (reports and redemption requests together) and
\* rows one admin action may select.
MaxRows == 2
MaxBatch == 2

\* ------------------------------------------------- program constants
AwardPoints == 50
RedemptionUnit == 500
UnitValue == 5

Users == {"u1", "u2"}
Admins == {"a1", "a2"}
\* Spec runs one request at a time; one admin issues them.
Reviewers == {"a1"}
NULL == "null"

PENDING == "pending"
APPROVED == "approved"
REJECTED == "rejected"

\* Balances the ledger already holds when the model starts, each the sum of
\* earlier awards of 50: u1 has 9 approved reports behind it (one award short
\* of a redemption unit), u2 has 20 (two redemption units).
InitPoints == ("u1" :> 9 * AwardPoints) @@ ("u2" :> 20 * AwardPoints)

\* RedeemRequest.points values a caller may send.
PointsInputs == {0 - RedemptionUnit, 0, RedemptionUnit - 1, RedemptionUnit,
                 2 * RedemptionUnit}

VARIABLES
    reports,      \* PotholeReport rows, by position (the row's id)
    points,       \* UserProfile.points of each user
    redemptions,  \* RedemptionRequest rows, by position (the row's id)
    response,     \* what the last handler returned
    credited,     \* history: total points added to each balance by awards
    pc,           \* SpecConc: where each admin request stands
    mem,          \* SpecConc: the model instance each admin request holds
    prof,         \* SpecConc: the profile.points each admin request read
    guardPassed,  \* SpecConc history: award calls that passed the guard, per report
    payouts,      \* history: provider sends, per redemption request (0, 1, many)
    debits,       \* history: balance debits, per redemption request (0, 1, many)
    serial,       \* SpecConc history: each balance with every credit and debit applied once
    awardCalls,   \* SpecAward history: calls of award_report_points, per report
    cache,        \* the Django cache: rate-limit counter and expiry of each key
    now,          \* the clock, in seconds
    callers,      \* SpecRateConc: where each concurrent rate_limit call stands
    rlHist,       \* history of rate_limit calls, per key
    intake,       \* the intake columns of each PotholeReport row
    accounts,     \* User rows, by position (the row's id)
    profiles      \* UserProfile rows: the user they belong to and the phone

dbVars == <<reports, points, redemptions, credited>>
authVars == <<accounts, profiles>>
intakeVars == <<cache, now, callers, rlHist, intake, authVars>>
histVars == <<guardPassed, payouts, debits, serial, awardCalls, intakeVars>>
adminVars == <<pc, mem, prof, guardPassed, serial, awardCalls, intakeVars>>
reqVars == <<adminVars, payouts, debits>>
vars == <<reports, points, redemptions, response, credited,
          pc, mem, prof, guardPassed, payouts, debits, serial, awardCalls,
          cache, now, callers, rlHist, intake, accounts, profiles>>

Max(a, b) == IF a >= b THEN a ELSE b

\* Sequences without repetition over S, of length 1..n: an admin selection.
RECURSIVE Batches(_, _)
Batches(S, n) ==
    IF n = 0 THEN {}
    ELSE {<<x>> : x \in S}
         \cup {Append(b, x) : b \in Batches(S, n - 1), x \in S}

DistinctBatches(S, n) ==
    {b \in Batches(S, n) : \A i, j \in 1..Len(b) : i # j => b[i] # b[j]}

\* Mutant of NewReport: the row is created approved.
NewReportApproved(u, valid) ==
    [user |-> u, ai_valid |-> valid, is_spam |-> ~valid, status |-> APPROVED,
     points_awarded |-> 0, rejection_reason |-> "", approved_at |-> NULL,
     approved_by |-> NULL]

\* ------------------------------------------------------------ rows
\* PotholeReport.objects.create(...) in submit_report: the fields the review
\* engine and the ledger read or write, with the model's defaults.
NewReport(u, valid) ==
    [user |-> u, ai_valid |-> valid, is_spam |-> ~valid, status |-> PENDING,
     points_awarded |-> 0, rejection_reason |-> "", approved_at |-> NULL,
     approved_by |-> NULL]

\* ai_validate_pothole: both branches approve.
AiValidatePothole == TRUE

\* RedemptionRequest.reference defaults to generate_reference(): a fresh
\* "RDM-<date>-<6 hex>" string per row.
GenerateReference(d) == [kind |-> "RDM", n |-> d]
EmptyReference == [kind |-> "", n |-> 0]
\* The requestId the airtime provider returns for one send.
ProviderReference(d) == [kind |-> "AT", n |-> d]

\* Mutant of NewRedemption: the row is created without a reference.
NewRedemptionNoReference(d, u, pts) ==
    [user |-> u, points |-> pts,
     airtime_amount |-> (pts \div RedemptionUnit) * UnitValue,
     status |-> PENDING, reference |-> EmptyReference,
     approved_by |-> NULL, approved_at |-> NULL]

\* RedemptionRequest.objects.create(user, points, airtime_amount, mtn_phone).
\* The model has no rejection_reason column.
NewRedemption(d, u, pts) ==
    [user |-> u, points |-> pts,
     airtime_amount |-> (pts \div RedemptionUnit) * UnitValue,
     status |-> PENDING, reference |-> GenerateReference(d),
     approved_by |-> NULL, approved_at |-> NULL]

\* timezone.now() read at clock value t, as a column stores it.
Timestamp(t) == ToString(t)

\* The database as one value, for the handlers that loop over a selection.
\* raised: an exception left the handler (the rest of the loop is skipped).
Db == [reports |-> reports, points |-> points, redemptions |-> redemptions,
       credited |-> credited, payouts |-> payouts, debits |-> debits,
       now |-> now, raised |-> FALSE]

\* A history count that tells none, one and more than one apart.
Tally(n) == IF n < 2 THEN n + 1 ELSE n

\* ------------------------------------------------------- responses
\* What a handler returned, with the request it answered (request: the
\* caller and the payload of an API call, the selected rows for
\* approve_redemption, <<>> for another admin action).
ErrorResponse(op, request, code, message) ==
    [op |-> op, request |-> request, code |-> code, message |-> message]
OkResponse(op, request, message) ==
    [op |-> op, request |-> request, code |-> 200, message |-> message]
ServerError(op) ==
    [op |-> op, request |-> <<>>, code |-> 500, message |-> "exception"]

\* ------------------------------------------------------ the ledger
\* Mutant of AwardReportPoints: the points_awarded guard is missing.
AwardReportPointsUnguarded(db, r, rep) ==
    IF rep.user = NULL THEN [db EXCEPT !.raised = TRUE]
    ELSE [db EXCEPT !.points[rep.user] = @ + AwardPoints,
                    !.credited[rep.user] = @ + AwardPoints,
                    !.reports[r] = [rep EXCEPT !.points_awarded = AwardPoints]]

\* award_report_points(report): rep is the in-memory instance of row r.
\* report.user is None for an orphaned report: report.user.profile raises.
AwardReportPoints(db, r, rep) ==
    IF rep.points_awarded > 0 THEN db
    ELSE IF rep.user = NULL THEN [db EXCEPT !.raised = TRUE]
    ELSE [db EXCEPT !.points[rep.user] = @ + AwardPoints,
                    !.credited[rep.user] = @ + AwardPoints,
                    !.reports[r] = [rep EXCEPT !.points_awarded = AwardPoints]]

\* ------------------------------------------------ the review engine
\* Mutant of ApproveOneReport: the status check is missing, so a reviewed
\* report is stamped again.
ApproveOneReportAnyStatus(db, admin, r) ==
    LET rep == db.reports[r] IN
    IF ~rep.ai_valid
    THEN [db EXCEPT !.reports[r] =
             [rep EXCEPT !.status = REJECTED,
                         !.rejection_reason = "AI rejected this image as non-pothole."]]
    ELSE LET approved == [rep EXCEPT !.status = APPROVED,
                                     !.approved_at = Timestamp(db.now),
                                     !.approved_by = admin]
         IN AwardReportPoints([db EXCEPT !.reports[r] = approved], r, approved)

\* Mutant of ApproveOneReport: the ai_valid branch is missing.
ApproveOneReportNoCoercion(db, admin, r) ==
    LET rep == db.reports[r] IN
    IF rep.status # PENDING THEN db
    ELSE LET approved == [rep EXCEPT !.status = APPROVED,
                                     !.approved_at = Timestamp(db.now),
                                     !.approved_by = admin]
         IN AwardReportPoints([db EXCEPT !.reports[r] = approved], r, approved)

\* One iteration of approve_reports' loop on row r.
ApproveOneReport(db, admin, r) ==
    LET rep == db.reports[r] IN
    IF rep.status # PENDING THEN db
    ELSE IF ~rep.ai_valid
    THEN [db EXCEPT !.reports[r] =
             [rep EXCEPT !.status = REJECTED,
                         !.rejection_reason = "AI rejected this image as non-pothole."]]
    ELSE LET approved == [rep EXCEPT !.status = APPROVED,
                                     !.approved_at = Timestamp(db.now),
                                     !.approved_by = admin]
         IN AwardReportPoints([db EXCEPT !.reports[r] = approved], r, approved)

RECURSIVE ApproveReportsFrom(_, _, _, _)
ApproveReportsFrom(db, admin, batch, i) ==
    IF i > Len(batch) \/ db.raised THEN db
    ELSE ApproveReportsFrom(ApproveOneReport(db, admin, batch[i]), admin, batch, i + 1)

\* Mutant of RejectOneReport: the reason is stored whatever the row holds.
RejectOneReportOverwriting(db, r) ==
    LET rep == db.reports[r] IN
    [db EXCEPT !.reports[r] =
        [rep EXCEPT !.status = REJECTED,
                    !.rejection_reason = "Rejected by admin."]]

\* Mutant of RejectOneReport: the rejected report is flagged as spam.
RejectOneReportMarkingSpam(db, r) ==
    LET rep == db.reports[r] IN
    [db EXCEPT !.reports[r] =
        [rep EXCEPT !.status = REJECTED,
                    !.is_spam = TRUE,
                    !.rejection_reason =
                        IF rep.rejection_reason = "" THEN "Rejected by admin." ELSE @]]

\* One iteration of reject_reports' loop on row r.
RejectOneReport(db, r) ==
    LET rep == db.reports[r] IN
    [db EXCEPT !.reports[r] =
        [rep EXCEPT !.status = REJECTED,
                    !.rejection_reason =
                        IF rep.rejection_reason = "" THEN "Rejected by admin." ELSE @]]

RECURSIVE RejectReportsFrom(_, _, _)
RejectReportsFrom(db, batch, i) ==
    IF i > Len(batch) THEN db
    ELSE RejectReportsFrom(RejectOneReport(db, batch[i]), batch, i + 1)

\* ------------------------------------------- the redemption workflow
\* What the airtime provider's HTTP call can come back with.
ProviderReplies == {"errorMessage", "noEntries", "entryWithId", "entryNoId",
                    "exception"}

\* send_airtime_to_user for redemption d, given the provider's reply:
\* <<success, reference>>.
SendAirtimeToUser(d, reply) ==
    CASE reply = "entryWithId" -> <<TRUE, ProviderReference(d)>>
      [] reply = "entryNoId" -> <<TRUE, EmptyReference>>
      [] OTHER -> <<FALSE, EmptyReference>>

\* The columns of RedemptionRequest: what save() writes of an instance.
StoredRedemption(inst) ==
    [user |-> inst.user, points |-> inst.points,
     airtime_amount |-> inst.airtime_amount,
     status |-> inst.status, reference |-> inst.reference,
     approved_by |-> inst.approved_by, approved_at |-> inst.approved_at]

\* The instance after the failure branch of approve_redemption:
\* redemption.status = REJECTED and redemption.rejection_reason = "Airtime
\* API error. Try again.", an attribute the model has no column for.
RejectedInstance(red) ==
    [user |-> red.user, points |-> red.points,
     airtime_amount |-> red.airtime_amount,
     status |-> REJECTED, reference |-> red.reference,
     approved_by |-> red.approved_by, approved_at |-> red.approved_at,
     rejection_reason |-> "Airtime API error. Try again."]

\* redemption.save(): reference is unique=True, so writing a reference another
\* row holds raises IntegrityError and the row stays as it was.
SaveRedemption(db, d, inst) ==
    IF \E e \in DOMAIN db.redemptions :
           e # d /\ db.redemptions[e].reference = inst.reference
    THEN [db EXCEPT !.raised = TRUE]
    ELSE [db EXCEPT !.redemptions[d] = StoredRedemption(inst)]

\* Mutant of SafeDeduction: no floor at 0.
PlainDeduction(balance, pts) == balance - pts

\* profile.points = max(0, profile.points - redemption.points)
SafeDeduction(balance, pts) == Max(0, balance - pts)

\* Mutant of SettleOneRedemption: a failed payout leaves the row as it is.
SettleOneRedemptionNoReject(db, admin, d, reply) ==
    LET red == db.redemptions[d]
        sent == SendAirtimeToUser(d, reply)
        called == [db EXCEPT !.payouts[d] = Tally(@)]
    IN  IF red.status # PENDING THEN db
        ELSE IF sent[1]
        THEN SaveRedemption(
                 [called EXCEPT !.points[red.user] = SafeDeduction(@, red.points),
                                !.debits[d] = Tally(@)],
                 d,
                 [red EXCEPT !.status = APPROVED, !.reference = sent[2],
                             !.approved_by = admin,
                             !.approved_at = Timestamp(db.now)])
        ELSE called

\* Mutant of SettleOneRedemption: the status guard is missing.
SettleOneRedemptionAnyStatus(db, admin, d, reply) ==
    LET red == db.redemptions[d]
        sent == SendAirtimeToUser(d, reply)
        called == [db EXCEPT !.payouts[d] = Tally(@)]
    IN  IF sent[1]
        THEN SaveRedemption(
                 [called EXCEPT !.points[red.user] = SafeDeduction(@, red.points),
                                !.debits[d] = Tally(@)],
                 d,
                 [red EXCEPT !.status = APPROVED, !.reference = sent[2],
                             !.approved_by = admin,
                             !.approved_at = Timestamp(db.now)])
        ELSE SaveRedemption(called, d, RejectedInstance(red))

\* One iteration of approve_redemption's loop on row d.
SettleOneRedemption(db, admin, d, reply) ==
    LET red == db.redemptions[d]
        sent == SendAirtimeToUser(d, reply)
        called == [db EXCEPT !.payouts[d] = Tally(@)]
    IN  IF red.status # PENDING THEN db
        ELSE IF sent[1]
        THEN SaveRedemption(
                 [called EXCEPT !.points[red.user] = SafeDeduction(@, red.points),
                                !.debits[d] = Tally(@)],
                 d,
                 [red EXCEPT !.status = APPROVED, !.reference = sent[2],
                             !.approved_by = admin,
                             !.approved_at = Timestamp(db.now)])
        ELSE SaveRedemption(called, d, RejectedInstance(red))

RECURSIVE ApproveRedemptionFrom(_, _, _, _, _)
ApproveRedemptionFrom(db, admin, batch, replies, i) ==
    IF i > Len(batch) \/ db.raised THEN db
    ELSE ApproveRedemptionFrom(
             SettleOneRedemption(db, admin, batch[i], replies[i]),
             admin, batch, replies, i + 1)

\* The provider's replies to the sends of one approve_redemption run: only a
\* row that is pending when the loop reaches it is sent to the provider.
PayoutReplies(batch) ==
    {f \in [1..Len(batch) -> ProviderReplies \cup {"notSent"}] :
        \A i \in 1..Len(batch) :
            (f[i] = "notSent") <=> (redemptions[batch[i]].status # PENDING)}

\* ------------------------------------------------- the rate limiter
\* submit_report's two rate_limit calls: limit and window_seconds.
UserLimit == 3
IpLimit == 10
WindowSeconds == 60

\* The addresses the users submit from.
Addresses == {"ip1"}

\* cache_key = f"rl:{key}" with key f"rep:user:{id}" or f"rep:ip:{ip}"
UserKey(u) == <<"rl:rep:user", u>>
IpKey(ip) == <<"rl:rep:ip", ip>>
CacheKeys == {UserKey(u) : u \in Users} \cup {IpKey(ip) : ip \in Addresses}
Limit(k) == IF k[1] = "rl:rep:user" THEN UserLimit ELSE IpLimit

\* cache.get(cache_key, 0) at time t: an entry is gone once its expiry is
\* reached.
CacheGet(c, k, t) == IF c[k].expires > t THEN c[k].count ELSE 0

\* Mutant of RateLimit: a limited call stores the counter again, with a
\* fresh timeout.
RateLimitTouching(c, k, limit, window, t) ==
    LET count == CacheGet(c, k, t) IN
    IF count >= limit
    THEN [limited |-> TRUE,
          cache |-> [c EXCEPT ![k] = [count |-> count, expires |-> t + window]]]
    ELSE [limited |-> FALSE,
          cache |-> [c EXCEPT ![k] = [count |-> count + 1, expires |-> t + window]]]

\* rate_limit(key, limit, window_seconds) at time t, run without
\* interruption: what it returns and the cache it leaves.  cache.set stores
\* the new count with a fresh timeout of window_seconds.
RateLimit(c, k, limit, window, t) ==
    LET count == CacheGet(c, k, t) IN
    IF count >= limit THEN [limited |-> TRUE, cache |-> c]
    ELSE [limited |-> FALSE,
          cache |-> [c EXCEPT ![k] = [count |-> count + 1, expires |-> t + window]]]

\* What a rate_limit call on key k returned.
RateLimitResult(k, limited) ==
    [op |-> "rate_limit", request |-> <<k>>, limited |-> limited]

\* The two requests whose rate_limit calls run at once in SpecRateConc.
Callers == {"c1", "c2"}

\* An empty cache, the clock at its origin, no call in flight.
\* The accounts of the users whose balances `points` holds, each with its
\* profile.
SeededAccounts ==
    /\ accounts = <<[username |-> "u1"], [username |-> "u2"]>>
    /\ profiles = <<[user |-> 1, phone |-> "0244000000"],
                    [user |-> 2, phone |-> "0244000001"]>>

NoIntake ==
    /\ SeededAccounts
    /\ cache = [k \in CacheKeys |-> [count |-> 0, expires |-> 0]]
    /\ now = 0
    /\ callers = [c \in Callers |-> [pc |-> "idle"]]
    /\ rlHist = [k \in CacheKeys |-> [first |-> 0, calls |-> 0, passed |-> 0]]
    /\ intake = <<>>

\* ---------------------------------------------------------- actions
\* No admin request is in flight.
IdleRequests ==
    /\ pc = [w \in Admins |-> "idle"]
    /\ mem = [w \in Admins |-> [row |-> 0]]
    /\ prof = [w \in Admins |-> 0]

Init ==
    /\ reports = <<>>
    /\ points = InitPoints
    /\ redemptions = <<>>
    /\ response = OkResponse("init", <<>>, "")
    /\ credited = points
    /\ IdleRequests
    /\ guardPassed = <<>>
    /\ payouts = <<>>
    /\ debits = <<>>
    /\ NoIntake
    /\ serial = points
    /\ awardCalls = <<>>

\* submit_report, a submission that passes every check of the intake
\* pipeline: one pending row is created.  A submission that fails a check
\* returns before PotholeReport.objects.create and writes no row and no
\* balance.
SubmitReport(u) ==
    /\ Len(reports) + Len(redemptions) < MaxRows
    /\ reports' = Append(reports, NewReport(u, AiValidatePothole))
    /\ response' = OkResponse("submit_report", <<u>>,
                       "Report submitted successfully and is pending review.")
    /\ UNCHANGED <<points, redemptions, credited, reqVars>>

ApproveReports(admin, batch) ==
    LET out == ApproveReportsFrom(Db, admin, batch, 1) IN
    /\ reports' = out.reports
    /\ points' = out.points
    /\ credited' = out.credited
    /\ response' = IF out.raised THEN ServerError("approve_reports")
                   ELSE OkResponse("approve_reports", <<>>,
                            "Approved selected reports. Points awarded via award_report_points().")
    /\ UNCHANGED <<redemptions, reqVars>>

RejectReports(batch) ==
    LET out == RejectReportsFrom(Db, batch, 1) IN
    /\ reports' = out.reports
    /\ response' = OkResponse("reject_reports", <<>>, "Selected reports rejected.")
    /\ UNCHANGED <<points, redemptions, credited, reqVars>>

\* Mutant of RedeemError: the multiple-of-500 check is missing.
RedeemErrorAnyAmount(balance, pts) ==
    IF pts <= 0 THEN "Points must be positive."
    ELSE IF balance < pts THEN "Insufficient points."
    ELSE ""

\* redeem_points' checks, in order: the message of the first that fails, ""
\* when all pass.
RedeemError(balance, pts) ==
    IF pts <= 0 THEN "Points must be positive."
    ELSE IF pts % RedemptionUnit # 0 THEN "Redemptions must be in blocks of 500."
    ELSE IF balance < pts THEN "Insufficient points."
    ELSE ""

\* Mutant of RedeemPoints: the balance is debited when the request is made.
RedeemPointsDebiting(u, pts) ==
    LET err == RedeemError(points[u], pts) IN
    /\ IF err # ""
       THEN /\ response' = ErrorResponse("redeem_points", <<u, pts>>, 400, err)
            /\ UNCHANGED <<redemptions, points, payouts, debits>>
       ELSE /\ Len(reports) + Len(redemptions) < MaxRows
            /\ redemptions' = Append(redemptions,
                                  NewRedemption(Len(redemptions) + 1, u, pts))
            /\ points' = [points EXCEPT ![u] = @ - pts]
            /\ payouts' = Append(payouts, 0)
            /\ debits' = Append(debits, 0)
            /\ response' = OkResponse("redeem_points", <<u, pts>>,
                               "Redemption request submitted successfully.")
    /\ UNCHANGED <<reports, credited, adminVars>>

\* redeem_points(request, payload) for the authenticated user u.
RedeemPoints(u, pts) ==
    LET err == RedeemError(points[u], pts) IN
    /\ IF err # ""
       THEN /\ response' = ErrorResponse("redeem_points", <<u, pts>>, 400, err)
            /\ UNCHANGED <<redemptions, payouts, debits>>
       ELSE /\ Len(reports) + Len(redemptions) < MaxRows
            /\ redemptions' = Append(redemptions,
                                  NewRedemption(Len(redemptions) + 1, u, pts))
            /\ payouts' = Append(payouts, 0)
            /\ debits' = Append(debits, 0)
            /\ response' = OkResponse("redeem_points", <<u, pts>>,
                               "Redemption request submitted successfully.")
    /\ UNCHANGED <<reports, points, credited, adminVars>>

ApproveRedemption(admin, batch, replies) ==
    LET out == ApproveRedemptionFrom(Db, admin, batch, replies, 1) IN
    /\ redemptions' = out.redemptions
    /\ points' = out.points
    /\ payouts' = out.payouts
    /\ debits' = out.debits
    /\ response' = IF out.raised
                   THEN [ServerError("approve_redemption") EXCEPT !.request = batch]
                   ELSE OkResponse("approve_redemption", batch,
                                   "Redemption requests processed.")
    /\ UNCHANGED <<reports, credited, adminVars>>

Next ==
    \/ \E u \in Users : SubmitReport(u)
    \/ \E a \in Reviewers, b \in DistinctBatches(DOMAIN reports, MaxBatch) :
           ApproveReports(a, b)
    \/ \E b \in DistinctBatches(DOMAIN reports, MaxBatch) : RejectReports(b)
    \/ \E u \in Users, p \in PointsInputs : RedeemPoints(u, p)
    \/ \E a \in Reviewers, b \in DistinctBatches(DOMAIN redemptions, MaxBatch) :
           \E replies \in PayoutReplies(b) : ApproveRedemption(a, b, replies)

Spec == Init /\ [][Next]_vars

\* ------------------------------------------ concurrent admin requests
\* Two admin requests run at once, each on a selection of one row.  A step is
\* one database statement with the Python code up to the next one.  The
\* database autocommits each statement; save() writes every column of the
\* instance the request holds.
InitConc ==
    /\ reports \in {<<NewReport(u, AiValidatePothole), NewReport(v, AiValidatePothole)>> :
                       u \in Users, v \in Users}
    /\ points = InitPoints
    /\ redemptions \in {<<NewRedemption(1, u, p)>> :
                           u \in Users, p \in {RedemptionUnit, 2 * RedemptionUnit}}
    /\ points[redemptions[1].user] >= redemptions[1].points
    /\ response = OkResponse("init", <<>>, "")
    /\ credited = points
    /\ IdleRequests
    /\ guardPassed = [r \in DOMAIN reports |-> 0]
    /\ payouts = [d \in DOMAIN redemptions |-> 0]
    /\ debits = [d \in DOMAIN redemptions |-> 0]
    /\ NoIntake
    /\ serial = points
    /\ awardCalls = <<>>

\* approve_reports: `for report in queryset` loads the selected row.
ApproveReportsLoad(w, r) ==
    /\ pc[w] = "idle"
    /\ mem' = [mem EXCEPT ![w] = [row |-> r, inst |-> reports[r]]]
    /\ pc' = [pc EXCEPT ![w] = "approve_reports"]
    /\ UNCHANGED <<dbVars, response, prof, histVars>>

\* approve_reports lines 77-94 up to award_report_points' guard: the status
\* check on the loaded instance, report.save(), then `points_awarded > 0`.
ApproveReportsSave(w) ==
    LET r == mem[w].row
        rep == mem[w].inst
        approved == [rep EXCEPT !.status = APPROVED,
                                !.approved_at = Timestamp(now),
                                !.approved_by = w]
    IN  /\ pc[w] = "approve_reports"
        /\ IF rep.status # PENDING
           THEN /\ pc' = [pc EXCEPT ![w] = "idle"]
                /\ mem' = [mem EXCEPT ![w] = [row |-> 0]]
                /\ UNCHANGED <<reports, guardPassed>>
           ELSE IF ~rep.ai_valid
           THEN /\ reports' = [reports EXCEPT ![r] =
                       [rep EXCEPT !.status = REJECTED,
                                   !.rejection_reason = "AI rejected this image as non-pothole."]]
                /\ pc' = [pc EXCEPT ![w] = "idle"]
                /\ mem' = [mem EXCEPT ![w] = [row |-> 0]]
                /\ UNCHANGED guardPassed
           ELSE /\ reports' = [reports EXCEPT ![r] = approved]
                /\ mem' = [mem EXCEPT ![w].inst = approved]
                /\ IF approved.points_awarded > 0
                   THEN /\ pc' = [pc EXCEPT ![w] = "idle"]
                        /\ UNCHANGED guardPassed
                   ELSE /\ pc' = [pc EXCEPT ![w] = "award_read_profile"]
                        /\ guardPassed' = [guardPassed EXCEPT ![r] = @ + 1]
        /\ UNCHANGED <<points, redemptions, credited, response, prof, payouts, debits, serial,
                     awardCalls, intakeVars>>

\* award_report_points: profile = report.user.profile
AwardReadProfile(w) ==
    /\ pc[w] = "award_read_profile"
    /\ prof' = [prof EXCEPT ![w] = points[mem[w].inst.user]]
    /\ pc' = [pc EXCEPT ![w] = "award_save_profile"]
    /\ UNCHANGED <<dbVars, response, mem, histVars>>

\* award_report_points: profile.points += 50; profile.save()
AwardSaveProfile(w) ==
    LET u == mem[w].inst.user IN
    /\ pc[w] = "award_save_profile"
    /\ points' = [points EXCEPT ![u] = prof[w] + AwardPoints]
    /\ credited' = [credited EXCEPT ![u] = @ + AwardPoints]
    /\ serial' = [serial EXCEPT ![u] = @ + AwardPoints]
    /\ pc' = [pc EXCEPT ![w] = "award_save_report"]
    /\ UNCHANGED <<reports, redemptions, response, mem, prof, guardPassed, payouts, debits,
                 awardCalls, intakeVars>>

\* award_report_points: report.points_awarded = 50; report.save()
AwardSaveReport(w) ==
    /\ pc[w] = "award_save_report"
    /\ reports' = [reports EXCEPT ![mem[w].row] =
                      [mem[w].inst EXCEPT !.points_awarded = AwardPoints]]
    /\ pc' = [pc EXCEPT ![w] = "idle"]
    /\ mem' = [mem EXCEPT ![w] = [row |-> 0]]
    /\ prof' = [prof EXCEPT ![w] = 0]
    /\ UNCHANGED <<points, redemptions, credited, response, histVars>>

\* approve_redemption: `for redemption in queryset` loads the selected row.
ApproveRedemptionLoad(w, d) ==
    /\ pc[w] = "idle"
    /\ mem' = [mem EXCEPT ![w] = [row |-> d, inst |-> redemptions[d]]]
    /\ pc' = [pc EXCEPT ![w] = "approve_redemption"]
    /\ UNCHANGED <<dbVars, response, prof, histVars>>

\* approve_redemption lines 145-157 and 164-166: the status check on the
\* loaded instance, the provider call, the fields set on the instance.
ApproveRedemptionSend(w, reply) ==
    LET d == mem[w].row
        red == mem[w].inst
        sent == SendAirtimeToUser(d, reply)
    IN  /\ pc[w] = "approve_redemption"
        /\ IF red.status # PENDING
           THEN /\ reply = "notSent"
                /\ pc' = [pc EXCEPT ![w] = "idle"]
                /\ mem' = [mem EXCEPT ![w] = [row |-> 0]]
                /\ UNCHANGED payouts
           ELSE /\ reply # "notSent"
                /\ payouts' = [payouts EXCEPT ![d] = Tally(@)]
                /\ IF sent[1]
                   THEN /\ mem' = [mem EXCEPT ![w].inst =
                                    [red EXCEPT !.status = APPROVED, !.reference = sent[2],
                                                !.approved_by = w,
                                                !.approved_at = Timestamp(now)]]
                        /\ pc' = [pc EXCEPT ![w] = "settle_read_profile"]
                   ELSE /\ mem' = [mem EXCEPT ![w].inst = RejectedInstance(red)]
                        /\ pc' = [pc EXCEPT ![w] = "settle_save"]
        /\ UNCHANGED <<dbVars, response, prof, guardPassed, debits, serial, awardCalls,
                     intakeVars>>

\* approve_redemption: profile = redemption.user.profile
ApproveRedemptionReadProfile(w) ==
    /\ pc[w] = "settle_read_profile"
    /\ prof' = [prof EXCEPT ![w] = points[mem[w].inst.user]]
    /\ pc' = [pc EXCEPT ![w] = "settle_save_profile"]
    /\ UNCHANGED <<dbVars, response, mem, histVars>>

\* approve_redemption: profile.points = max(0, ...); profile.save()
ApproveRedemptionSaveProfile(w) ==
    LET red == mem[w].inst IN
    /\ pc[w] = "settle_save_profile"
    /\ points' = [points EXCEPT ![red.user] = SafeDeduction(prof[w], red.points)]
    /\ serial' = [serial EXCEPT ![red.user] = SafeDeduction(@, red.points)]
    /\ debits' = [debits EXCEPT ![mem[w].row] = Tally(@)]
    /\ pc' = [pc EXCEPT ![w] = "settle_save"]
    /\ UNCHANGED <<reports, redemptions, credited, response, mem, prof, guardPassed, payouts,
                 awardCalls, intakeVars>>

\* approve_redemption: redemption.save()
ApproveRedemptionSave(w) ==
    LET out == SaveRedemption(Db, mem[w].row, mem[w].inst) IN
    /\ pc[w] = "settle_save"
    /\ redemptions' = out.redemptions
    /\ pc' = [pc EXCEPT ![w] = "idle"]
    /\ mem' = [mem EXCEPT ![w] = [row |-> 0]]
    /\ prof' = [prof EXCEPT ![w] = 0]
    /\ UNCHANGED <<reports, points, credited, response, histVars>>

NextConc ==
    \/ \E w \in Admins, r \in DOMAIN reports : ApproveReportsLoad(w, r)
    \/ \E w \in Admins : ApproveReportsSave(w)
    \/ \E w \in Admins : AwardReadProfile(w)
    \/ \E w \in Admins : AwardSaveProfile(w)
    \/ \E w \in Admins : AwardSaveReport(w)
    \/ \E w \in Admins, d \in DOMAIN redemptions : ApproveRedemptionLoad(w, d)
    \/ \E w \in Admins, reply \in ProviderReplies \cup {"notSent"} :
           ApproveRedemptionSend(w, reply)
    \/ \E w \in Admins : ApproveRedemptionReadProfile(w)
    \/ \E w \in Admins : ApproveRedemptionSaveProfile(w)
    \/ \E w \in Admins : ApproveRedemptionSave(w)

SpecConc == InitConc /\ [][NextConc]_vars

\* ------------------------------------------ interrupted approve requests
\* The request of admin w ends between report.save() and the end of
\* award_report_points: the worker is killed, or a statement of the award
\* raises.  Autocommit keeps what was saved before.
Interrupt(w) ==
    /\ pc[w] \in {"award_read_profile", "award_save_profile", "award_save_report"}
    /\ pc' = [pc EXCEPT ![w] = "idle"]
    /\ mem' = [mem EXCEPT ![w] = [row |-> 0]]
    /\ prof' = [prof EXCEPT ![w] = 0]
    /\ UNCHANGED <<dbVars, response, histVars>>

\* One admin approves two pending reports, selecting them again and
\* again; any request may be interrupted.
InitCrash ==
    /\ reports \in {<<NewReport(u, a), NewReport(v, b)>> :
                       u \in Users, v \in Users, a \in BOOLEAN, b \in BOOLEAN}
    /\ points = InitPoints
    /\ redemptions = <<>>
    /\ response = OkResponse("init", <<>>, "")
    /\ credited = points
    /\ IdleRequests
    /\ guardPassed = [r \in DOMAIN reports |-> 0]
    /\ payouts = <<>>
    /\ debits = <<>>
    /\ NoIntake
    /\ serial = points
    /\ awardCalls = <<>>

NextCrash ==
    \/ \E w \in Reviewers, r \in DOMAIN reports : ApproveReportsLoad(w, r)
    \/ \E w \in Reviewers : ApproveReportsSave(w)
    \/ \E w \in Reviewers : AwardReadProfile(w)
    \/ \E w \in Reviewers : AwardSaveProfile(w)
    \/ \E w \in Reviewers : AwardSaveReport(w)
    \/ \E w \in Reviewers : Interrupt(w)

\* Every report is selected for approval again and again, and a request that
\* is not interrupted runs to its end.
SpecCrash ==
    /\ InitCrash
    /\ [][NextCrash]_vars
    /\ \A w \in Reviewers :
           /\ \A r \in {1, 2} : SF_vars(ApproveReportsLoad(w, r))
           /\ WF_vars(ApproveReportsSave(w))
           /\ WF_vars(AwardReadProfile(w))
           /\ WF_vars(AwardSaveProfile(w))
           /\ WF_vars(AwardSaveReport(w))

\* ------------------------------------------- the award operation alone
MaxAwardCalls == 2

\* Reports not yet credited, pending or already marked approved, and the
\* balances of their owners.
InitAward ==
    /\ reports \in {<<[NewReport(u, AiValidatePothole) EXCEPT !.status = s],
                      [NewReport(v, AiValidatePothole) EXCEPT !.status = t]>> :
                       u \in Users, v \in Users,
                       s \in {PENDING, APPROVED}, t \in {PENDING, APPROVED}}
    /\ points = InitPoints
    /\ redemptions = <<>>
    /\ response = OkResponse("init", <<>>, "")
    /\ credited = points
    /\ IdleRequests
    /\ guardPassed = <<>>
    /\ payouts = <<>>
    /\ debits = <<>>
    /\ NoIntake
    /\ serial = points
    /\ awardCalls = [r \in DOMAIN reports |-> 0]

\* award_report_points(report) on the row r as the database holds it.
AwardCall(r) ==
    LET out == AwardReportPoints(Db, r, reports[r]) IN
    /\ awardCalls[r] < MaxAwardCalls
    /\ awardCalls' = [awardCalls EXCEPT ![r] = @ + 1]
    /\ reports' = out.reports
    /\ points' = out.points
    /\ credited' = out.credited
    /\ response' = IF out.raised THEN ServerError("award_report_points")
                   ELSE OkResponse("award_report_points", <<r>>, "")
    /\ UNCHANGED <<redemptions, pc, mem, prof, guardPassed, payouts, debits, serial, intakeVars>>

NextAward == \E r \in DOMAIN reports : AwardCall(r)

SpecAward == InitAward /\ [][NextAward]_vars

\* --------------------------------- approve_redemption on any selection
\* approve_redemption run on rows of every status: two requests as the
\* database can hold them (pending, approved with the provider's reference,
\* rejected), payouts and debits counting from this state on.
SettledRow(d, u, st) ==
    [NewRedemption(d, u, RedemptionUnit) EXCEPT
        !.status = st,
        !.reference = IF st = APPROVED THEN ProviderReference(d) ELSE @,
        !.approved_by = IF st = APPROVED THEN "a1" ELSE NULL,
        !.approved_at = IF st = APPROVED THEN Timestamp(0) ELSE NULL]

InitSettle ==
    /\ reports = <<>>
    /\ points = InitPoints
    /\ redemptions \in {<<SettledRow(1, u, s), SettledRow(2, v, t)>> :
                           u \in Users, v \in Users,
                           s \in {PENDING, APPROVED, REJECTED},
                           t \in {PENDING, APPROVED, REJECTED}}
    /\ response = OkResponse("init", <<>>, "")
    /\ credited = points
    /\ IdleRequests
    /\ guardPassed = <<>>
    /\ payouts = [d \in DOMAIN redemptions |-> 0]
    /\ debits = [d \in DOMAIN redemptions |-> 0]
    /\ serial = points
    /\ awardCalls = <<>>
    /\ NoIntake

NextSettle ==
    \E a \in Reviewers, b \in DistinctBatches(DOMAIN redemptions, MaxBatch) :
        \E replies \in PayoutReplies(b) : ApproveRedemption(a, b, replies)

SpecSettle == InitSettle /\ [][NextSettle]_vars

\* ------------------------------------------ rate_limit calls in time
\* rate_limit called for a user's key and an address's key, one call after
\* another, while the clock advances.
TickSeconds == 30
MaxClock == 120
RateKeys == {UserKey("u1"), IpKey("ip1")}

\* No report, no redemption request, no admin request.
NoLedger ==
    /\ reports = <<>>
    /\ points = InitPoints
    /\ redemptions = <<>>
    /\ credited = points
    /\ IdleRequests
    /\ guardPassed = <<>>
    /\ payouts = <<>>
    /\ debits = <<>>
    /\ serial = points
    /\ awardCalls = <<>>

ledgerVars == <<reports, points, redemptions, credited, pc, mem, prof,
                guardPassed, payouts, debits, serial, awardCalls>>

InitRate ==
    /\ NoLedger
    /\ NoIntake
    /\ response = OkResponse("init", <<>>, "")

\* History of the calls on one key, after a call at time t: first is the
\* time of the call that opened the current window of `window` seconds,
\* calls the calls made in that window (counted up to limit + 1) and passed
\* those of them that returned not-limited.
Recorded(h, limit, window, t, limited) ==
    LET passes == IF limited THEN 0 ELSE 1 IN
    IF h.calls = 0 \/ t >= h.first + window
    THEN [first |-> t, calls |-> 1, passed |-> passes]
    ELSE [first |-> h.first,
          calls |-> IF h.calls <= limit THEN h.calls + 1 ELSE h.calls,
          passed |-> h.passed + passes]

RateLimitCall(k) ==
    LET out == RateLimit(cache, k, Limit(k), WindowSeconds, now) IN
    /\ cache' = out.cache
    /\ rlHist' = [rlHist EXCEPT ![k] =
                      Recorded(@, Limit(k), WindowSeconds, now, out.limited)]
    /\ response' = RateLimitResult(k, out.limited)
    /\ UNCHANGED <<ledgerVars, now, callers, intake, authVars>>

\* Time passes.
Tick ==
    /\ now < MaxClock
    /\ now' = now + TickSeconds
    /\ UNCHANGED <<ledgerVars, response, cache, callers, rlHist, intake, authVars>>

NextRate ==
    \/ \E k \in RateKeys : RateLimitCall(k)
    \/ Tick

SpecRate == InitRate /\ [][NextRate]_vars

\* ------------------------------------------ concurrent rate_limit calls
\* Two requests call rate_limit at once, inside one window (the clock
\* stands still).  A step is one cache operation with the Python code
\* around it: cache.get with the comparison, then cache.set.  A key takes
\* calls until MaxExtraCalls calls beyond its limit have been made.
MaxExtraCalls == 2

\* rate_limit lines 109-113: count = cache.get(cache_key, 0); the call
\* returns True when count >= limit.
RateLimitGet(c, k) ==
    LET count == CacheGet(cache, k, now) IN
    /\ callers[c].pc = "idle"
    /\ rlHist[k].calls < Limit(k) + MaxExtraCalls
    /\ IF count >= Limit(k)
       THEN /\ response' = RateLimitResult(k, TRUE)
            /\ rlHist' = [rlHist EXCEPT ![k].calls = @ + 1]
            /\ UNCHANGED callers
       ELSE /\ callers' = [callers EXCEPT ![c] = [pc |-> "set", key |-> k, count |-> count]]
            /\ rlHist' = [rlHist EXCEPT ![k].calls = @ + 1]
            /\ UNCHANGED response
    /\ UNCHANGED <<ledgerVars, cache, now, intake, authVars>>

\* rate_limit lines 115-116: cache.set(cache_key, count + 1, timeout);
\* return False.
RateLimitSet(c) ==
    LET k == callers[c].key IN
    /\ callers[c].pc = "set"
    /\ cache' = [cache EXCEPT ![k] = [count |-> callers[c].count + 1,
                                      expires |-> now + WindowSeconds]]
    /\ rlHist' = [rlHist EXCEPT ![k].passed = @ + 1]
    /\ response' = RateLimitResult(k, FALSE)
    /\ callers' = [callers EXCEPT ![c] = [pc |-> "idle"]]
    /\ UNCHANGED <<ledgerVars, now, intake, authVars>>

NextRateConc ==
    \/ \E c \in Callers, k \in RateKeys : RateLimitGet(c, k)
    \/ \E c \in Callers : RateLimitSet(c)

SpecRateConc == InitRate /\ [][NextRateConc]_vars

\* ------------------------------------------------ the intake pipeline
\* RegionChoices, and the regions a payload may name.
RegionChoices == {"Greater Accra", "Ashanti", "Eastern", "Western",
                  "Western North", "Central", "Volta", "Oti", "Northern",
                  "Savannah", "North East", "Upper East", "Upper West", "Bono",
                  "Bono East", "Ahafo"}
RegionInputs == {"Greater Accra", "Atlantis"}

\* The image_base64 strings a payload may hold: one that is not base64 (wrong
\* padding), base64 of bytes that are no image, and three photos of which
\* img1b is a re-encoded copy of img1.
ImageInputs == {"badBase64", "notAnImage", "img1", "img1b", "img2"}

\* base64.b64decode(base64_data) returns bytes (it raises otherwise).
Base64Decodes(img) == img # "badBase64"

\* Image.open in calculate_phash reads the bytes as an image (it raises
\* otherwise).
ImageOpens(img) == img \in {"img1", "img1b", "img2"}

\* calculate_phash of a readable image: a perceptual hash, equal for copies.
CalculatePhash(img) == IF img \in {"img1", "img1b"} THEN "h1" ELSE "h2"

\* Points on one meridian, by latitude in millionths of a degree.
Latitudes == {0, 900}

\* haversine_distance of two points of equal longitude, in millimetres:
\* R * dphi with R = 6371000 m, that is 111195 m to the degree (latitude 900
\* is 100.08 m from latitude 0).
MetresPerDegree == 111195
HaversineDistance(lat1, lat2) ==
    ((IF lat1 >= lat2 THEN lat1 - lat2 ELSE lat2 - lat1)
        * MetresPerDegree) \div 1000

\* detect_gps_spam's defaults and its count.
ThresholdMetres == 100
RecentMinutes == 5
NearbyCount == 3

\* Mutant of DetectGpsSpam: the reports of every user count.
DetectGpsSpamAnyUser(reps, ink, t, u, lat) ==
    Cardinality({r \in DOMAIN reps :
                    /\ ink[r].created_at >= t - RecentMinutes * 60
                    /\ HaversineDistance(lat, ink[r].latitude)
                           <= ThresholdMetres * 1000}) >= NearbyCount

\* detect_gps_spam(user, lat, lon) at time t on the rows reps / ink.
DetectGpsSpam(reps, ink, t, u, lat) ==
    Cardinality({r \in DOMAIN reps :
                    /\ reps[r].user = u
                    /\ ink[r].created_at >= t - RecentMinutes * 60
                    /\ HaversineDistance(lat, ink[r].latitude)
                           <= ThresholdMetres * 1000}) >= NearbyCount

\* Mutant of DuplicateImage: only pending reports are compared.
DuplicateImagePendingOnly(reps, ink, hash) ==
    \E r \in DOMAIN ink : ink[r].image_hash = hash /\ reps[r].status = PENDING

\* PotholeReport.objects.filter(image_hash=image_hash).exists()
DuplicateImage(reps, ink, hash) ==
    \E r \in DOMAIN ink : ink[r].image_hash = hash

\* The intake columns PotholeReport.objects.create stores.
IntakeRow(hash, lat, region, t, ip) ==
    [image_hash |-> hash, latitude |-> lat, region |-> region,
     created_at |-> t, submitted_ip |-> ip]

\* Mutant of SubmitResult: a submission naming an unknown region is stored.
SubmitResultKeepsBadRegion(c, reps, ink, t, u, ip, lat, region, img) ==
    LET user == RateLimit(c, UserKey(u), UserLimit, WindowSeconds, t)
        addr == RateLimit(user.cache, IpKey(ip), IpLimit, WindowSeconds, t)
        Out(cc, code, message, created) ==
            [cache |-> cc, code |-> code, message |-> message, created |-> created]
    IN  IF user.limited
        THEN Out(user.cache, 429, "Too many reports. Slow down.", FALSE)
        ELSE IF addr.limited
        THEN Out(addr.cache, 429, "Too many reports from this IP.", FALSE)
        ELSE IF DetectGpsSpam(reps, ink, t, u, lat)
        THEN Out(addr.cache, 400,
                 "Too many reports around the same location in a short time.", FALSE)
        ELSE IF region \notin RegionChoices
        THEN Out(addr.cache, 400, "Invalid region.", TRUE)
        ELSE IF ~Base64Decodes(img)
        THEN Out(addr.cache, 400, "Invalid image data.", FALSE)
        ELSE IF ~ImageOpens(img)
        THEN Out(addr.cache, 500, "exception", FALSE)
        ELSE IF DuplicateImage(reps, ink, CalculatePhash(img))
        THEN Out(addr.cache, 400, "Duplicate pothole image.", FALSE)
        ELSE Out(addr.cache, 200,
                 "Report submitted successfully and is pending review.", TRUE)

\* submit_report up to its return, on cache c and rows reps / ink at time
\* t: the cache it leaves, the status code and message it returns (500 for
\* an exception that leaves the handler) and whether it creates the row.
SubmitResult(c, reps, ink, t, u, ip, lat, region, img) ==
    LET user == RateLimit(c, UserKey(u), UserLimit, WindowSeconds, t)
        addr == RateLimit(user.cache, IpKey(ip), IpLimit, WindowSeconds, t)
        Out(cc, code, message, created) ==
            [cache |-> cc, code |-> code, message |-> message, created |-> created]
    IN  IF user.limited
        THEN Out(user.cache, 429, "Too many reports. Slow down.", FALSE)
        ELSE IF addr.limited
        THEN Out(addr.cache, 429, "Too many reports from this IP.", FALSE)
        ELSE IF DetectGpsSpam(reps, ink, t, u, lat)
        THEN Out(addr.cache, 400,
                 "Too many reports around the same location in a short time.", FALSE)
        ELSE IF region \notin RegionChoices
        THEN Out(addr.cache, 400, "Invalid region.", FALSE)
        ELSE IF ~Base64Decodes(img)
        THEN Out(addr.cache, 400, "Invalid image data.", FALSE)
        ELSE IF ~ImageOpens(img)
        THEN Out(addr.cache, 500, "exception", FALSE)
        ELSE IF DuplicateImage(reps, ink, CalculatePhash(img))
        THEN Out(addr.cache, 400, "Duplicate pothole image.", FALSE)
        ELSE Out(addr.cache, 200,
                 "Report submitted successfully and is pending review.", TRUE)

\* The hashes of the rows the table holds at the start.
StoredHashes == <<"h1", "h8", "h9">>

\* A minute after up to three reports of one user at latitude 0: the rate
\* limit windows of those submissions have run out; other accounts behind
\* the same address may have used part of the address's budget in the
\* running window.
InitIntake ==
    /\ \E n \in 0..NearbyCount, u \in Users :
           /\ reports = [i \in 1..n |-> NewReport(u, AiValidatePothole)]
           /\ intake = [i \in 1..n |->
                           IntakeRow(StoredHashes[i], 0, "Greater Accra", 0, "ip1")]
    /\ now = WindowSeconds
    /\ SeededAccounts
    /\ \E used \in {0, IpLimit - UserLimit + 1} :
           cache = [k \in CacheKeys |->
                       IF k = IpKey("ip1") /\ used > 0
                       THEN [count |-> used, expires |-> now + WindowSeconds]
                       ELSE [count |-> 0, expires |-> 0]]
    /\ callers = [c \in Callers |-> [pc |-> "idle"]]
    /\ rlHist = [k \in CacheKeys |-> [first |-> 0, calls |-> 0, passed |-> 0]]
    /\ points = InitPoints
    /\ redemptions = <<>>
    /\ credited = points
    /\ IdleRequests
    /\ guardPassed = <<>>
    /\ payouts = <<>>
    /\ debits = <<>>
    /\ serial = points
    /\ awardCalls = <<>>
    /\ response = OkResponse("init", <<>>, "")

\* submit_report(request, payload) by user u from address ip.  The table
\* grows by one row for each new image hash, so it stays finite.
Submit(u, ip, lat, region, img) ==
    LET out == SubmitResult(cache, reports, intake, now, u, ip, lat, region, img)
        user == RateLimit(cache, UserKey(u), UserLimit, WindowSeconds, now)
        addr == RateLimit(user.cache, IpKey(ip), IpLimit, WindowSeconds, now)
    IN  /\ cache' = out.cache
        /\ rlHist' = [k \in CacheKeys |->
               IF k = UserKey(u)
               THEN Recorded(rlHist[k], UserLimit, WindowSeconds, now, user.limited)
               ELSE IF k = IpKey(ip) /\ ~user.limited
               THEN Recorded(rlHist[k], IpLimit, WindowSeconds, now, addr.limited)
               ELSE rlHist[k]]
        /\ response' = [op |-> "submit_report",
                        request |-> <<u, ip, lat, region, img>>,
                        code |-> out.code, message |-> out.message]
        /\ IF out.created
           THEN /\ reports' = Append(reports, NewReport(u, AiValidatePothole))
                /\ intake' = Append(intake,
                                 IntakeRow(CalculatePhash(img), lat, region, now, ip))
           ELSE UNCHANGED <<reports, intake>>
        /\ UNCHANGED <<points, redemptions, credited, pc, mem, prof, guardPassed,
                       payouts, debits, serial, awardCalls, now, callers,
                       authVars>>

NextIntake ==
    \E u \in Users, ip \in Addresses, lat \in Latitudes,
       region \in RegionInputs, img \in ImageInputs :
        Submit(u, ip, lat, region, img)

SpecIntake == InitIntake /\ [][NextIntake]_vars

\* --------------------------------------- submissions on stored reports
\* A report as the table can hold it after review: pending, approved (with
\* its award) or rejected.
StoredReport(u, st) ==
    [NewReport(u, AiValidatePothole) EXCEPT
        !.status = st,
        !.points_awarded = IF st = APPROVED THEN AwardPoints ELSE 0,
        !.rejection_reason = IF st = REJECTED THEN "Rejected by admin." ELSE "",
        !.approved_at = IF st = APPROVED THEN Timestamp(0) ELSE NULL,
        !.approved_by = IF st = APPROVED THEN "a1" ELSE NULL]

\* No redemption request, no admin request, no rate_limit call in flight,
\* an empty cache.
QuietStart ==
    /\ SeededAccounts
    /\ cache = [k \in CacheKeys |-> [count |-> 0, expires |-> 0]]
    /\ callers = [c \in Callers |-> [pc |-> "idle"]]
    /\ rlHist = [k \in CacheKeys |-> [first |-> 0, calls |-> 0, passed |-> 0]]
    /\ points = InitPoints
    /\ redemptions = <<>>
    /\ credited = points
    /\ IdleRequests
    /\ guardPassed = <<>>
    /\ payouts = <<>>
    /\ debits = <<>>
    /\ serial = points
    /\ awardCalls = <<>>
    /\ response = OkResponse("init", <<>>, "")

\* submit_report on a table of two reports of any owner and any status,
\* stored with the hashes of img1 and of an image no payload holds.
InitDedupe ==
    /\ reports \in {<<StoredReport(u, s), StoredReport(v, t)>> :
                       u \in Users, v \in Users,
                       s \in {PENDING, APPROVED, REJECTED},
                       t \in {PENDING, APPROVED, REJECTED}}
    /\ intake = [i \in 1..2 |->
                    IntakeRow(StoredHashes[i], 0, "Greater Accra", 0, "ip1")]
    /\ now = RecentMinutes * 60 + WindowSeconds
    /\ QuietStart

NextDedupe ==
    \E u \in Users, img \in ImageInputs :
        Submit(u, "ip1", 900, "Greater Accra", img)

SpecDedupe == InitDedupe /\ [][NextDedupe]_vars

\* submit_report on a table of three reports, each of any owner, at
\* latitude 0 or 899 (99.96 m from 0) and created exactly 5 minutes or 5
\* minutes and a second ago.
InitSpam ==
    /\ now = RecentMinutes * 60 + WindowSeconds
    /\ reports \in [1..NearbyCount -> {NewReport(u, AiValidatePothole) : u \in Users}]
    /\ intake \in {[i \in 1..NearbyCount |->
                       IntakeRow(StoredHashes[i], lat[i], "Greater Accra",
                                 now - RecentMinutes * 60 - old[i], "ip1")] :
                       lat \in [1..NearbyCount -> {0, 899}],
                       old \in [1..NearbyCount -> {0, 1}]}
    /\ QuietStart

NextSpam ==
    \E u \in Users, lat \in Latitudes :
        Submit(u, "ip1", lat, "Greater Accra", "img2")

SpecSpam == InitSpam /\ [][NextSpam]_vars

\* ------------------------------------- review of reports of any validity
\* The review actions on two pending reports whose ai_valid column holds
\* either value.  ai_validate_pothole returns True for every image, so
\* submit_report only creates valid rows; ai_valid is a plain BooleanField
\* that the admin site's change form of PotholeReportAdmin (no
\* readonly_fields) or a real classifier sets to False.
InitReview ==
    /\ reports \in {<<NewReport(u, a), NewReport(v, b)>> :
                       u \in Users, v \in Users, a \in BOOLEAN, b \in BOOLEAN}
    /\ points = InitPoints
    /\ redemptions = <<>>
    /\ response = OkResponse("init", <<>>, "")
    /\ credited = points
    /\ IdleRequests
    /\ guardPassed = <<>>
    /\ payouts = <<>>
    /\ debits = <<>>
    /\ serial = points
    /\ awardCalls = <<>>
    /\ NoIntake

NextReview ==
    \/ \E a \in Reviewers, b \in DistinctBatches(DOMAIN reports, MaxBatch) :
           ApproveReports(a, b)
    \/ \E b \in DistinctBatches(DOMAIN reports, MaxBatch) : RejectReports(b)
    \/ Tick

SpecReview == InitReview /\ [][NextReview]_vars

\* ------------------------------------------------ concurrent submissions
\* submit_report lines 200-236 for caller c: the checks up to the duplicate
\* lookup and the validation stub.  A request that passes them goes on to
\* PotholeReport.objects.create; the others return.
SubmitChecks(c, u, ip, lat, region, img) ==
    LET out == SubmitResult(cache, reports, intake, now, u, ip, lat, region, img)
        user == RateLimit(cache, UserKey(u), UserLimit, WindowSeconds, now)
        addr == RateLimit(user.cache, IpKey(ip), IpLimit, WindowSeconds, now)
    IN  /\ callers[c].pc = "idle"
        /\ cache' = out.cache
        /\ rlHist' = [k \in CacheKeys |->
               IF k = UserKey(u)
               THEN Recorded(rlHist[k], UserLimit, WindowSeconds, now, user.limited)
               ELSE IF k = IpKey(ip) /\ ~user.limited
               THEN Recorded(rlHist[k], IpLimit, WindowSeconds, now, addr.limited)
               ELSE rlHist[k]]
        /\ IF out.created
           THEN /\ callers' = [callers EXCEPT ![c] =
                       [pc |-> "create", request |-> <<u, ip, lat, region, img>>]]
                /\ UNCHANGED response
           ELSE /\ response' = [op |-> "submit_report",
                                request |-> <<u, ip, lat, region, img>>,
                                code |-> out.code, message |-> out.message]
                /\ UNCHANGED callers
        /\ UNCHANGED <<ledgerVars, now, intake, authVars>>

\* submit_report lines 240-260 for caller c: PotholeReport.objects.create
\* and the success response.
SubmitCreate(c) ==
    LET req == callers[c].request IN
    /\ callers[c].pc = "create"
    /\ reports' = Append(reports, NewReport(req[1], AiValidatePothole))
    /\ intake' = Append(intake,
                     IntakeRow(CalculatePhash(req[5]), req[3], req[4], now, req[2]))
    /\ response' = [op |-> "submit_report", request |-> req, code |-> 200,
                    message |-> "Report submitted successfully and is pending review."]
    /\ callers' = [callers EXCEPT ![c] = [pc |-> "idle"]]
    /\ UNCHANGED <<points, redemptions, credited, pc, mem, prof, guardPassed,
                   payouts, debits, serial, awardCalls, cache, now, rlHist, authVars>>

\* Two requests at once on an empty table.
InitSubmitConc ==
    /\ reports = <<>>
    /\ intake = <<>>
    /\ now = 0
    /\ QuietStart

NextSubmitConc ==
    \/ \E c \in Callers, u \in Users, img \in ImageInputs :
           SubmitChecks(c, u, "ip1", 900, "Greater Accra", img)
    \/ \E c \in Callers : SubmitCreate(c)

SpecSubmitConc == InitSubmitConc /\ [][NextSubmitConc]_vars

\* ------------------------------------------- intake followed by review
\* One stored report of either validity, a further submission, and the
\* review actions on whatever the table holds.
InitLifecycle ==
    /\ reports \in {<<NewReport(u, a)>> : u \in Users, a \in BOOLEAN}
    /\ intake = <<IntakeRow(StoredHashes[1], 0, "Greater Accra", 0, "ip1")>>
    /\ now = RecentMinutes * 60 + WindowSeconds
    /\ QuietStart

NextLifecycle ==
    \/ \E u \in Users : Submit(u, "ip1", 900, "Greater Accra", "img2")
    \/ \E a \in Reviewers, b \in DistinctBatches(DOMAIN reports, MaxBatch) :
           ApproveReports(a, b)
    \/ \E b \in DistinctBatches(DOMAIN reports, MaxBatch) : RejectReports(b)

SpecLifecycle == InitLifecycle /\ [][NextLifecycle]_vars

\* ------------------------------------------- approval of orphaned reports
\* Two pending reports of either validity; the owner of a report may have
\* been deleted since (PotholeReport.user is SET_NULL).  The admin
\* selects the whole table, in either order.
InitOrphan ==
    /\ reports \in {<<NewReport(u, a), NewReport(v, b)>> :
                       u \in Users \cup {NULL}, v \in Users \cup {NULL},
                       a \in BOOLEAN, b \in BOOLEAN}
    /\ points = InitPoints
    /\ redemptions = <<>>
    /\ response = OkResponse("init", <<>>, "")
    /\ credited = points
    /\ IdleRequests
    /\ guardPassed = <<>>
    /\ payouts = <<>>
    /\ debits = <<>>
    /\ serial = points
    /\ awardCalls = <<>>
    /\ NoIntake

NextOrphan ==
    \E a \in Admins :
        \E b \in {s \in DistinctBatches(DOMAIN reports, Len(reports)) :
                      Len(s) = Len(reports)} :
            ApproveReports(a, b)

SpecOrphan == InitOrphan /\ [][NextOrphan]_vars

\* -------------------------------------------------------- registration
\* Usernames a register payload may carry: stored names, new names, and the
\* same in another case or behind a space.
Usernames == {"u1", "U1", " u1", "ama", "Ama", " ama", "kofi", "esi"}
Phones == {"0244000000", "0244123456"}

\* str.lower() and str.strip() on the names of Usernames.
Lower(name) ==
    CASE name = "U1" -> "u1"
      [] name = "Ama" -> "ama"
      [] OTHER -> name

Strip(name) ==
    CASE name = " u1" -> "u1"
      [] name = " ama" -> "ama"
      [] OTHER -> name

\* Mutant of RegisterResult: no check of the stored usernames, by the
\* handler or by the column.
RegisterResultUnchecked(accts, profs, name, phone) ==
    [accounts |-> Append(accts, [username |-> Strip(Lower(Lower(name)))]),
     profiles |-> Append(profs, [user |-> Len(accts) + 1, phone |-> phone]),
     code |-> 200, message |-> "Account created successfully."]

\* register(request, payload) on the tables accts and profs: the tables it
\* leaves and its response.  The handler looks payload.username.lower() up;
\* User.save() stores username.lower().strip(), and the unique username
\* column raises IntegrityError inside transaction.atomic() (nothing is
\* created, the exception leaves the handler) when that name is stored.
RegisterResult(accts, profs, name, phone) ==
    LET lowered == Lower(name)
        saved == Strip(Lower(lowered))
    IN  IF \E a \in DOMAIN accts : accts[a].username = lowered
        THEN [accounts |-> accts, profiles |-> profs,
              code |-> 400, message |-> "Username already taken."]
        ELSE IF \E a \in DOMAIN accts : accts[a].username = saved
        THEN [accounts |-> accts, profiles |-> profs,
              code |-> 500, message |-> "exception"]
        ELSE [accounts |-> Append(accts, [username |-> saved]),
              profiles |-> Append(profs, [user |-> Len(accts) + 1, phone |-> phone]),
              code |-> 200, message |-> "Account created successfully."]

Register(name, phone) ==
    LET out == RegisterResult(accounts, profiles, name, phone) IN
    /\ accounts' = out.accounts
    /\ profiles' = out.profiles
    /\ response' = [op |-> "register", request |-> <<name, phone>>,
                    code |-> out.code, message |-> out.message]
    /\ UNCHANGED <<ledgerVars, cache, now, callers, rlHist, intake>>

InitRegister ==
    /\ reports = <<>>
    /\ intake = <<>>
    /\ now = 0
    /\ QuietStart

NextRegister == \E name \in Usernames, phone \in Phones : Register(name, phone)

SpecRegister == InitRegister /\ [][NextRegister]_vars

\* ============================================================ claims
\* Total points of user u's approved redemption requests.
RECURSIVE ApprovedPointsFrom(_, _)
ApprovedPointsFrom(u, d) ==
    IF d > Len(redemptions) THEN 0
    ELSE (IF redemptions[d].user = u /\ redemptions[d].status = APPROVED
          THEN redemptions[d].points ELSE 0)
         + ApprovedPointsFrom(u, d + 1)

ApprovedPoints(u) == ApprovedPointsFrom(u, 1)

\* Redemption request d goes from pending to approved in this step.
Settles(d) ==
    /\ redemptions[d].status = PENDING
    /\ redemptions'[d].status = APPROVED

AllIdle == \A w \in Admins : pc[w] = "idle"

\* C1: in every reachable state every report with points_awarded > 0 has
\* status approved.
C1_AwardedImpliesApproved ==
    \A r \in DOMAIN reports :
        reports[r].points_awarded > 0 => reports[r].status = APPROVED

\* C2: the first award call on a report not yet credited adds exactly 50 to
\* the owner's balance (and to no other balance) and sets points_awarded to
\* 50; every later call on that report changes neither the balances nor
\* points_awarded.
C2_AwardIdempotent ==
    [][\A r \in DOMAIN reports :
          awardCalls'[r] = awardCalls[r] + 1 =>
              IF awardCalls[r] = 0
              THEN /\ points' = [points EXCEPT ![reports[r].user] = @ + AwardPoints]
                   /\ reports[r].points_awarded = 0
                   /\ reports'[r].points_awarded = AwardPoints
              ELSE /\ points' = points
                   /\ reports'[r].points_awarded = reports[r].points_awarded
                   /\ reports'[r].points_awarded = AwardPoints]_vars

\* C2 witness: a report was awarded twice, it holds 50 points and its owner
\* was credited 50 once.
C2_Witness ==
    \E r \in DOMAIN reports :
        /\ awardCalls[r] = MaxAwardCalls
        /\ reports[r].points_awarded = AwardPoints
        /\ \A q \in DOMAIN reports : q # r => awardCalls[q] = 0
        /\ points[reports[r].user] = InitPoints[reports[r].user] + AwardPoints

\* C3: of the concurrent approve/award runs on one report at most one passes
\* the points_awarded guard.
C3_AtMostOnePassesGuard ==
    \A r \in DOMAIN guardPassed : guardPassed[r] <= 1

\* C4: an approve or reject action leaves every field of a report that is
\* already approved or rejected unchanged.
C4_TerminalReportsFrozen ==
    [][\A r \in DOMAIN reports :
          reports[r].status # PENDING => reports'[r] = reports[r]]_vars

\* C5: for every user the points of the approved redemption requests never
\* exceed the points awards credited to that user.
C5_ApprovedRedemptionsCovered ==
    \A u \in Users : ApprovedPoints(u) <= credited[u]

\* C6: a redemption request becomes approved only if its points are at most
\* the owner's balance when the settlement runs.
C6_SettlementRechecksBalance ==
    [][\A d \in DOMAIN redemptions :
          Settles(d) => redemptions[d].points <= points[redemptions[d].user]]_vars

\* C7: once every request has finished, each balance is the result of
\* applying every credit and debit once (no report awarded twice and no
\* request paid twice being the case).
C7_NoLostUpdate ==
    ( /\ AllIdle
      /\ \A r \in DOMAIN guardPassed : guardPassed[r] <= 1
      /\ \A d \in DOMAIN payouts : payouts[d] <= 1 )
    => points = serial

\* C8: every balance is a non-negative integer in every state, and a
\* settlement approving a request of more points than the balance leaves
\* the balance at 0.
C8_BalanceNonNegative ==
    /\ [](\A u \in Users : points[u] \in Nat)
    /\ [][\A d \in DOMAIN redemptions :
             (Settles(d) /\ redemptions[d].points > points[redemptions[d].user])
                 => points'[redemptions[d].user] = 0]_vars

\* C8 witness: a settlement has approved more points than the user was ever
\* credited, and the balance stands at 0.
C8_Witness ==
    \E u \in Users : ApprovedPoints(u) > credited[u] /\ points[u] = 0

\* C9: a redeem_points call, accepted or rejected, changes no balance; an
\* accepted one appends one request in status pending; a balance decreases
\* only in approve_redemption.
C9_RedeemKeepsBalance ==
    [][/\ response'.op = "redeem_points" =>
             /\ points' = points
             /\ response'.code = 200 =>
                    /\ Len(redemptions') = Len(redemptions) + 1
                    /\ redemptions'[Len(redemptions')].status = PENDING
       /\ (\E u \in Users : points'[u] < points[u]) =>
             response'.op = "approve_redemption"]_vars

\* C9 witness: a redemption request was accepted while the requester's
\* balance is still what the ledger credited.
C9_Witness ==
    /\ response.op = "redeem_points"
    /\ response.code = 200
    /\ redemptions[Len(redemptions)].status = PENDING
    /\ points[response.request[1]] = credited[response.request[1]]
    /\ points[response.request[1]] >= response.request[2]

\* C10: redeem_points answers "not a positive multiple of 500" with an
\* invalid-amount error, a valid amount above the balance with
\* "Insufficient points.", both without persisting a request, and every
\* other call persists exactly one pending request.
InvalidAmountMessages ==
    {"Points must be positive.", "Redemptions must be in blocks of 500."}

C10_RedeemOutcome ==
    [][response'.op = "redeem_points" =>
          LET u == response'.request[1]
              pts == response'.request[2]
              invalid == ~(pts > 0 /\ pts % RedemptionUnit = 0)
          IN  /\ invalid =>
                    /\ response'.code = 400
                    /\ response'.message \in InvalidAmountMessages
                    /\ redemptions' = redemptions
              /\ (~invalid /\ pts > points[u]) =>
                    /\ response'.code = 400
                    /\ response'.message = "Insufficient points."
                    /\ redemptions' = redemptions
              /\ (~invalid /\ pts <= points[u]) =>
                    /\ response'.code = 200
                    /\ Len(redemptions') = Len(redemptions) + 1
                    /\ SubSeq(redemptions', 1, Len(redemptions)) = redemptions
                    /\ redemptions'[Len(redemptions')] =
                           NewRedemption(Len(redemptions'), u, pts)]_vars

\* C10 witness: a request for a valid amount above the balance was refused
\* and nothing was persisted.
C10_Witness ==
    /\ response.op = "redeem_points"
    /\ response.message = "Insufficient points."
    /\ response.request[2] = RedemptionUnit
    /\ redemptions = <<>>

\* The provider call for pending request d succeeds in this step: the
\* balance debit of approve_redemption's success branch is made for it.
PayoutSucceeds(d) ==
    redemptions[d].status = PENDING /\ debits'[d] # debits[d]

\* The provider call for pending request d fails in this step: d is sent
\* and no debit is made for it.
PayoutFails(d) ==
    /\ redemptions[d].status = PENDING
    /\ payouts'[d] # payouts[d]
    /\ debits'[d] = debits[d]

\* C11: a settlement of a pending request whose payout succeeds leaves the
\* request approved with a non-empty reference of the provider, and, when
\* it is the only request debited and the balance covers it, the owner's
\* balance lower by exactly the request's points.
C11_PayoutSuccessSettles ==
    [][\A d \in DOMAIN redemptions :
          PayoutSucceeds(d) =>
              /\ redemptions'[d].status = APPROVED
              /\ redemptions'[d].reference # EmptyReference
              /\ redemptions'[d].reference # redemptions[d].reference
              /\ ( /\ \A e \in DOMAIN redemptions \ {d} : debits'[e] = debits[e]
                   /\ points[redemptions[d].user] >= redemptions[d].points )
                 => points'[redemptions[d].user]
                        = points[redemptions[d].user] - redemptions[d].points]_vars

\* C12: a settlement of a pending request whose payout fails leaves the
\* request rejected, and a settlement in which no payout succeeds leaves
\* every balance as it was.
C12_PayoutFailureRejects ==
    [][/\ \A d \in DOMAIN redemptions :
             PayoutFails(d) => redemptions'[d].status = REJECTED
       /\ ( /\ \E d \in DOMAIN redemptions : PayoutFails(d)
            /\ \A d \in DOMAIN redemptions : debits'[d] = debits[d] )
          => points' = points]_vars

\* C12 witness: a request stands rejected after one failed payout and no
\* debit, its owner's balance untouched since the start.
C12_Witness ==
    \E d \in DOMAIN redemptions :
        /\ redemptions[d].status = REJECTED
        /\ payouts[d] = 1
        /\ debits[d] = 0
        /\ response.op = "approve_redemption"
        /\ points = InitPoints

\* C13: approve_redemption leaves a request that is approved or rejected as
\* it is, sends no payout for it and debits nothing for it, and a run on
\* rows of which none is pending changes no balance; so a request changes
\* at most once, from pending.
C13_SettlementOnlyOnPending ==
    [][/\ \A d \in DOMAIN redemptions :
             redemptions[d].status # PENDING =>
                 /\ redemptions'[d] = redemptions[d]
                 /\ payouts'[d] = payouts[d]
                 /\ debits'[d] = debits[d]
       /\ ( /\ response'.op = "approve_redemption"
            /\ \A d \in DOMAIN redemptions : redemptions[d].status # PENDING )
          => points' = points]_vars

\* C13 witness: approve_redemption has run on a selection holding a request
\* that was approved or rejected before the run (no payout was ever sent
\* for it since the start).
C13_Witness ==
    /\ response.op = "approve_redemption"
    /\ \E i \in DOMAIN response.request :
           /\ redemptions[response.request[i]].status # PENDING
           /\ payouts[response.request[i]] = 0

\* C14: no request whose stored status is pending has had its balance
\* debit written.
C14_DebitWithStatus ==
    \A d \in DOMAIN redemptions :
        redemptions[d].status = PENDING => debits[d] = 0

\* C15: whenever the balance debit of a request has been written, the
\* request's row already holds the reference the provider returned in place
\* of the generated one.
C15_ReferenceBeforeDebit ==
    \A d \in DOMAIN redemptions :
        debits[d] > 0 => redemptions[d].reference # GenerateReference(d)

\* C16: approve_reports never approves a pending report whose ai_valid is
\* false: such a report is left alone (not selected) or ends rejected with a
\* non-empty rejection_reason, approved_at unset and points_awarded 0; and a
\* run that changes only such reports changes no balance.
C16_InvalidApprovalCoerced ==
    [][response'.op = "approve_reports" =>
          /\ \A r \in DOMAIN reports :
                 (reports[r].status = PENDING /\ ~reports[r].ai_valid) =>
                     \/ reports'[r] = reports[r]
                     \/ /\ reports'[r].status = REJECTED
                        /\ reports'[r].rejection_reason # ""
                        /\ reports'[r].approved_at = NULL
                        /\ reports'[r].points_awarded = 0
          /\ (\A r \in DOMAIN reports :
                  reports'[r] # reports[r] => ~reports[r].ai_valid)
                 => points' = points]_vars

\* C16 witness: approve_reports has turned a report with ai_valid false into
\* a rejection with the coercion's reason, no balance having changed.
C16_Witness ==
    /\ response.op = "approve_reports"
    /\ points = InitPoints
    /\ \E r \in DOMAIN reports :
           /\ ~reports[r].ai_valid
           /\ reports[r].status = REJECTED
           /\ reports[r].rejection_reason = "AI rejected this image as non-pothole."
           /\ reports[r].approved_at = NULL
           /\ reports[r].points_awarded = 0

\* A rate_limit call on key k is made in this step.
CallOn(k) ==
    /\ response'.op = "rate_limit"
    /\ response'.request = <<k>>
    /\ now' = now

\* The call of this step on key k falls in the window its key's earlier
\* calls opened.
InWindow(k) ==
    rlHist[k].calls > 0 /\ now < rlHist[k].first + WindowSeconds

\* C17: of the calls made one after another in one window of a key, each of
\* the first `limit` returns not-limited and the (limit+1)-th returns
\* limited; the first call after the window has elapsed returns not-limited.
C17_LimitPerWindow ==
    [][\A k \in CacheKeys :
          CallOn(k) =>
              /\ (InWindow(k) /\ rlHist[k].calls < Limit(k))
                     => ~response'.limited
              /\ (InWindow(k) /\ rlHist[k].calls = Limit(k))
                     => response'.limited
              /\ ~InWindow(k) => ~response'.limited]_vars

\* C19: a call that increments the live counter of a key leaves the key's
\* expiry where the call that set the counter to 1 put it.
C19_WindowFixedByFirstCall ==
    [][\A k \in CacheKeys :
          ( /\ cache[k].expires > now
            /\ cache'[k].count = cache[k].count + 1 )
              => cache'[k].expires = cache[k].expires]_vars

\* C18: of the rate_limit calls made on one key inside one window, however
\* they interleave, at most `limit` return not-limited.
C18_AtMostLimitPass ==
    \A k \in CacheKeys : rlHist[k].passed <= Limit(k)

\* The message of the first check, in the order user rate limit, address
\* rate limit, location spam, region, image decoding, duplicate hash, that
\* the submission <<u, ip, lat, region, img>> fails in the current state;
\* the message of success when it fails none.
FirstFailedCheck(u, ip, lat, region, img) ==
    IF CacheGet(cache, UserKey(u), now) >= UserLimit
    THEN "Too many reports. Slow down."
    ELSE IF CacheGet(cache, IpKey(ip), now) >= IpLimit
    THEN "Too many reports from this IP."
    ELSE IF DetectGpsSpam(reports, intake, now, u, lat)
    THEN "Too many reports around the same location in a short time."
    ELSE IF region \notin RegionChoices
    THEN "Invalid region."
    ELSE IF ~(Base64Decodes(img) /\ ImageOpens(img))
    THEN "Invalid image data."
    ELSE IF \E r \in DOMAIN intake : intake[r].image_hash = CalculatePhash(img)
    THEN "Duplicate pothole image."
    ELSE "Report submitted successfully and is pending review."

\* C20: submit_report answers every submission with the error of the first
\* check it fails, in the order user rate limit, address rate limit,
\* location spam, region, image decoding, duplicate hash.
C20_FirstFailingCheckReported ==
    [][response'.op = "submit_report" =>
          response'.message =
              FirstFailedCheck(response'.request[1], response'.request[2],
                               response'.request[3], response'.request[4],
                               response'.request[5])]_vars

\* C21: a submission answered with an error (rate limit, spam, region, image
\* or duplicate; an exception included) adds no report, changes no report
\* and changes no balance.
C21_FailedSubmitPersistsNothing ==
    [][(response'.op = "submit_report" /\ response'.code # 200) =>
          /\ reports' = reports
          /\ intake' = intake
          /\ points' = points]_vars

\* C21 witness: a submission has been refused as a duplicate, the table
\* holding its one row and the balances as at the start.
C21_Witness ==
    /\ response.op = "submit_report"
    /\ response.message = "Duplicate pothole image."
    /\ Len(reports) = 1
    /\ points = InitPoints

\* C22: a submission answered with success adds exactly one report, pending,
\* with points_awarded 0 and owned by the submitting user, leaves the other
\* reports as they were and changes no balance.
C22_SubmitCreatesOnePending ==
    [][(response'.op = "submit_report" /\ response'.code = 200) =>
          /\ Len(reports') = Len(reports) + 1
          /\ SubSeq(reports', 1, Len(reports)) = reports
          /\ SubSeq(intake', 1, Len(intake)) = intake
          /\ reports'[Len(reports')].status = PENDING
          /\ reports'[Len(reports')].points_awarded = 0
          /\ reports'[Len(reports')].user = response'.request[1]
          /\ points' = points]_vars

\* C22 witness: a submission has succeeded and its row is the last of the
\* table, pending and without points.
C22_Witness ==
    /\ response.op = "submit_report"
    /\ response.code = 200
    /\ Len(reports) > 0
    /\ reports[Len(reports)].user = response.request[1]
    /\ reports[Len(reports)].status = PENDING
    /\ intake[Len(reports)].image_hash = CalculatePhash(response.request[5])

\* C25: a submission that passes the rate, spam and region checks and whose
\* image data is not an image is answered with the error "Invalid image
\* data." (status 400) and adds no report.
C25_UndecodableImageTypedError ==
    [][( /\ response'.op = "submit_report"
         /\ ~ImageOpens(response'.request[5])
         /\ FirstFailedCheck(response'.request[1], response'.request[2],
                             response'.request[3], response'.request[4],
                             response'.request[5]) = "Invalid image data." ) =>
          /\ response'.code = 400
          /\ response'.message = "Invalid image data."
          /\ reports' = reports]_vars

\* The submission <<u, ip, lat, region, img>> fails none of the checks made
\* before the duplicate check.
PassesEarlierChecks(u, ip, lat, region, img) ==
    FirstFailedCheck(u, ip, lat, region, img)
        \in {"Duplicate pothole image.",
             "Report submitted successfully and is pending review."}

\* C23: a submission that passes the earlier checks and whose image hash is
\* the hash of a stored report, whoever owns it and whatever its status, is
\* answered "Duplicate pothole image." and adds no report.
C23_DuplicateRefused ==
    [][( /\ response'.op = "submit_report"
         /\ PassesEarlierChecks(response'.request[1], response'.request[2],
                                response'.request[3], response'.request[4],
                                response'.request[5])
         /\ \E r \in DOMAIN intake :
                intake[r].image_hash = CalculatePhash(response'.request[5]) ) =>
          /\ response'.code = 400
          /\ response'.message = "Duplicate pothole image."
          /\ reports' = reports
          /\ intake' = intake]_vars

\* C23 witness: a submission has been refused as the duplicate of a report
\* that another user owns and that is approved or rejected.
C23_Witness ==
    /\ response.op = "submit_report"
    /\ response.message = "Duplicate pothole image."
    /\ Len(reports) = 2
    /\ \E r \in DOMAIN intake :
           /\ intake[r].image_hash = CalculatePhash(response.request[5])
           /\ reports[r].user # response.request[1]
           /\ reports[r].status # PENDING

\* The reports among rows r..Len(reports) that user u owns, that were
\* created at most 5 minutes before now and that lie at most 100 m from
\* latitude lat.
RECURSIVE ClusterFrom(_, _, _)
ClusterFrom(u, lat, r) ==
    IF r > Len(reports) THEN 0
    ELSE (IF /\ reports[r].user = u
             /\ now - intake[r].created_at <= RecentMinutes * 60
             /\ HaversineDistance(intake[r].latitude, lat) <= ThresholdMetres * 1000
          THEN 1 ELSE 0)
         + ClusterFrom(u, lat, r + 1)

\* C24: detect_gps_spam is true exactly when at least 3 of the user's own
\* reports of the last 5 minutes lie within 100 m of the point, and a
\* submission that passes the rate limits is answered with the spam error
\* exactly in that case.
C24_SpamExactlyOnCluster ==
    /\ [](\A u \in Users, lat \in Latitudes :
              DetectGpsSpam(reports, intake, now, u, lat)
                  <=> ClusterFrom(u, lat, 1) >= NearbyCount)
    /\ [][( /\ response'.op = "submit_report"
            /\ response'.code # 429 ) =>
              ( response'.message
                    = "Too many reports around the same location in a short time."
                <=> ClusterFrom(response'.request[1], response'.request[3], 1)
                        >= NearbyCount )]_vars

\* C24 witness: a submission at latitude 0 has been refused as spam with three
\* reports of its user in the cluster, one of them 99.96 m away.
C24_Witness ==
    /\ response.op = "submit_report"
    /\ response.message = "Too many reports around the same location in a short time."
    /\ response.request[3] = 0
    /\ ClusterFrom(response.request[1], 0, 1) = NearbyCount
    /\ ClusterFrom(response.request[1], 900, 1) < NearbyCount
    /\ \E r \in DOMAIN intake : intake[r].latitude = 899

\* C26 as stated: every redemption request in status pending or rejected has
\* no reference.
C26_UnsettledHasNoReference ==
    \A d \in DOMAIN redemptions :
        redemptions[d].status \in {PENDING, REJECTED} =>
            redemptions[d].reference = EmptyReference

\* C26 amended: a redemption request holds the provider's reference only if
\* it is approved; a pending or rejected request holds the reference
\* generate_reference gave it when it was created.
C26_UnsettledKeepsGeneratedReference ==
    \A d \in DOMAIN redemptions :
        /\ redemptions[d].status \in {PENDING, REJECTED} =>
               redemptions[d].reference = GenerateReference(d)
        /\ redemptions[d].reference.kind = "AT" =>
               redemptions[d].status = APPROVED

\* C26 witness: a request whose payout failed is rejected and still holds its
\* generated reference, beside a request approved with the provider's.
C26_Witness ==
    \E d, e \in DOMAIN redemptions :
        /\ redemptions[d].status = REJECTED
        /\ payouts[d] = 1
        /\ redemptions[d].reference = GenerateReference(d)
        /\ redemptions[e].status = APPROVED
        /\ redemptions[e].reference = ProviderReference(e)

\* C28: a rate_limit call that finds the live counter of its key at the
\* limit or above returns limited and leaves the counter and its expiry as
\* they were; a call made once that expiry has passed is not limited.
C28_LimitedCallLeavesKey ==
    [][\A k \in CacheKeys :
          CallOn(k) =>
              /\ CacheGet(cache, k, now) >= Limit(k)
                     => response'.limited /\ cache' = cache
              /\ response'.limited => cache' = cache
              /\ now >= cache[k].expires => ~response'.limited]_vars

\* C28 witness: a call has been limited on a key whose counter is at the
\* limit and still live.
C28_Witness ==
    /\ response.op = "rate_limit"
    /\ response.limited
    /\ LET k == response.request[1] IN
           /\ cache[k].count = Limit(k)
           /\ cache[k].expires > now

\* C29: in every state a report has a non-empty rejection_reason exactly
\* when its status is rejected; a reason, once stored, is never replaced, and
\* the reason reject_reports stores on a report that has none is
\* "Rejected by admin.".
C29_ReasonIffRejected ==
    /\ [](\A r \in DOMAIN reports :
              reports[r].rejection_reason # "" <=> reports[r].status = REJECTED)
    /\ [][\A r \in DOMAIN reports :
              /\ reports[r].rejection_reason # ""
                     => reports'[r].rejection_reason = reports[r].rejection_reason
              /\ ( /\ response'.op = "reject_reports"
                   /\ reports[r].rejection_reason = ""
                   /\ reports'[r] # reports[r] )
                     => /\ reports'[r].rejection_reason = "Rejected by admin."
                        /\ reports'[r].status = REJECTED]_vars

\* C29 witness: reject_reports has run on a report that approve_reports had
\* rejected as invalid, beside a report it rejected itself: the first keeps
\* its reason, the second holds the default.
C29_Witness ==
    /\ response.op = "reject_reports"
    /\ \A r \in DOMAIN reports : reports[r].status = REJECTED
    /\ reports[1].rejection_reason = "AI rejected this image as non-pothole."
    /\ reports[2].rejection_reason = "Rejected by admin."

\* C30: an approved report has approved_at and approved_by set; approved_at
\* becomes set only in the approve_reports step that approves the report, to
\* the time of that step; once set it never changes.
C30_ApprovalStampSetOnce ==
    /\ [](\A r \in DOMAIN reports :
              reports[r].status = APPROVED
                  => reports[r].approved_at # NULL /\ reports[r].approved_by # NULL)
    /\ [][\A r \in DOMAIN reports :
              /\ reports[r].approved_at # NULL
                     => reports'[r].approved_at = reports[r].approved_at
              /\ (reports[r].approved_at = NULL /\ reports'[r].approved_at # NULL)
                     => /\ response'.op = "approve_reports"
                        /\ reports[r].status = PENDING
                        /\ reports'[r].status = APPROVED
                        /\ reports'[r].approved_at = Timestamp(now)]_vars

\* C30 witness: a report approved at an earlier time has since been rejected
\* and still carries the stamp of its approval, beside a report never
\* approved and without a stamp.
C30_Witness ==
    /\ response.op = "reject_reports"
    /\ reports[1].status = REJECTED
    /\ reports[1].approved_at = Timestamp(TickSeconds)
    /\ reports[1].approved_by \in Reviewers
    /\ now > TickSeconds
    /\ reports[2].approved_at = NULL

\* C27: after any sequence of register calls every user has exactly one
\* profile and no two users hold the same lower-cased username; a register
\* call whose lower-cased username is stored returns the error "Username
\* already taken."; a call that does not succeed creates no user and no
\* profile, and one that succeeds creates one of each.
C27_RegisterOneProfilePerUser ==
    /\ [](\A a \in DOMAIN accounts :
              Cardinality({p \in DOMAIN profiles : profiles[p].user = a}) = 1)
    /\ [](\A p \in DOMAIN profiles : profiles[p].user \in DOMAIN accounts)
    /\ [](\A a, b \in DOMAIN accounts :
              a # b => Lower(accounts[a].username) # Lower(accounts[b].username))
    /\ [][response'.op = "register" =>
              /\ (\E a \in DOMAIN accounts :
                      Lower(accounts[a].username) = Lower(response'.request[1]))
                     => /\ response'.code = 400
                        /\ response'.message = "Username already taken."
              /\ response'.code # 200
                     => accounts' = accounts /\ profiles' = profiles
              /\ response'.code = 200
                     => /\ Len(accounts') = Len(accounts) + 1
                        /\ Len(profiles') = Len(profiles) + 1
                        /\ SubSeq(accounts', 1, Len(accounts)) = accounts
                        /\ SubSeq(profiles', 1, Len(profiles)) = profiles]_vars

\* C27 witness: "Ama" has been refused as taken after "ama" was registered:
\* the tables hold the two seeded users and ama, with one profile each.
C27_Witness ==
    /\ response.op = "register"
    /\ response.code = 400
    /\ response.request[1] = "Ama"
    /\ Len(accounts) = 3
    /\ accounts[3].username = "ama"
    /\ Len(profiles) = 3
    /\ profiles[3].user = 3

\* C31: in every step of every behaviour a report's points_awarded is 0 or
\* 50, it never decreases, and once it is 50 no step changes it.
C31_PointsAwardedMonotonic ==
    /\ [](\A r \in DOMAIN reports : reports[r].points_awarded \in {0, AwardPoints})
    /\ [][\A r \in DOMAIN reports :
              reports'[r].points_awarded >= reports[r].points_awarded]_vars

\* C32: a stored report is never removed, and no step changes its owner,
\* its validity, its spam flag or any column intake stored (hash, place,
\* region, creation time, address); review changes only status,
\* rejection_reason, approved_at, approved_by and points_awarded.
C32_IntakeColumnsFrozen ==
    [][/\ Len(reports') >= Len(reports)
       /\ Len(intake') = Len(reports')
       /\ \A r \in DOMAIN reports :
              /\ reports'[r].user = reports[r].user
              /\ reports'[r].ai_valid = reports[r].ai_valid
              /\ reports'[r].is_spam = reports[r].is_spam
              /\ intake'[r] = intake[r]]_vars

\* C32 witness: the stored report and a submitted one have both been
\* reviewed, the first approved and then rejected; both hold what intake
\* stored.
C32_Witness ==
    /\ response.op = "reject_reports"
    /\ Len(reports) = 2
    /\ reports[1].status = REJECTED
    /\ reports[1].points_awarded = AwardPoints
    /\ reports[2].status # PENDING
    /\ intake[1] = IntakeRow(StoredHashes[1], 0, "Greater Accra", 0, "ip1")
    /\ intake[2].image_hash = CalculatePhash("img2")
    /\ ~reports[1].is_spam

\* C33: every redemption request that settlement rejected has a non-empty
\* rejection reason in its stored row.
C33_RejectedRedemptionHasReason ==
    \A d \in DOMAIN redemptions :
        redemptions[d].status = REJECTED =>
            /\ "rejection_reason" \in DOMAIN redemptions[d]
            /\ redemptions[d].rejection_reason # ""

\* C34: however concurrent approve_redemption requests on one pending
\* request interleave, the provider is called at most once for it and the
\* owner's balance is debited at most once for it.
C34_SettledAtMostOnce ==
    \A d \in DOMAIN redemptions : payouts[d] <= 1 /\ debits[d] <= 1

\* C35: every report that reaches status approved eventually has
\* points_awarded = 50: when an approve request is interrupted after the
\* status is saved, a later approve request on the report completes the
\* award.
C35_ApprovedEventuallyAwarded ==
    \A r \in {1, 2} :
        [](reports[r].status = APPROVED
              => <>(reports[r].points_awarded = AwardPoints))

\* C36: in every state, those reached by concurrent submissions of one
\* image included, no two stored reports hold the same image hash.
C36_HashesDistinct ==
    \A r, q \in DOMAIN intake :
        r # q => intake[r].image_hash # intake[q].image_hash

\* C37: a submission refused by the address limit, the spam check, the
\* region check, the image check or the duplicate check leaves the
\* rate-limit counters of its user and of its address as they were.
C37_RefusedSubmitKeepsCounters ==
    [][( /\ response'.op = "submit_report"
         /\ response'.message \in
                {"Too many reports from this IP.",
                 "Too many reports around the same location in a short time.",
                 "Invalid region.", "Invalid image data.",
                 "Duplicate pothole image."} ) =>
          /\ cache'[UserKey(response'.request[1])] = cache[UserKey(response'.request[1])]
          /\ cache'[IpKey(response'.request[2])] = cache[IpKey(response'.request[2])]]_vars

\* C38: approve_reports on a selection of every report, one of them pending,
\* valid and without owner: that report is not credited and keeps
\* points_awarded 0, and every other pending valid report of the selection
\* is approved and awarded.
C38_OrphanSkippedOthersProcessed ==
    [][response'.op = "approve_reports" =>
          \A r \in DOMAIN reports :
              (reports[r].status = PENDING /\ reports[r].ai_valid) =>
                  IF reports[r].user = NULL
                  THEN reports'[r].points_awarded = 0
                  ELSE /\ reports'[r].status = APPROVED
                       /\ reports'[r].points_awarded = AwardPoints]_vars

====
